---- MODULE Spec2Model ----
(***************************************************************************)
(* Verification model of yannbouteiller/rlrd:                              *)
(*   - agents/__init__.py   iterate_episodes (checkpointing generator)     *)
(*                          and its caller run_fs (statistics log)         *)
(*   - agents/rrtac.py      Agent.act (training cadence)                   *)
(*   - rlrd/sac_models_rd.py DelayedMlpModule / MlpActionValue             *)
(* Three specifications share the module: Spec (checkpoint loop),          *)
(* SpecAgent (training cadence) and SpecMlp (delayed MLP input layout).    *)
(***************************************************************************)
EXTENDS Integers, Sequences, FiniteSets, TLC

\* ------------------------------------------------------------------ bounds
MaxEpochs == 3
Rounds == 2
MaxCrashes == 2
MaxStart == 3
MemorySize == 6
MaxDim == 2
MaxBuf == 2

VARIABLES
  \* --- iterate_episodes / run_fs ---
  run_cls,          \* the declarative run specification (epochs, rounds)
  arg,              \* the checkpoint_path argument given by the caller
  fs,               \* checkpoint files: a function from existing paths to Run States
  log,              \* the statistics sink (run_fs: path/stats), survives crashes
  pc,               \* position of the generator / process
  checkpoint_path,  \* local of iterate_episodes
  run_instance,     \* local of iterate_episodes: <<>> (unbound) or <<Run State>>
  held,             \* the record the caller holds at a yield: <<>> or <<record>>
  exc,              \* how the try block is being left: "none", "exception", "closed"
  hist,             \* history (bookkeeping only, never read by the program)
  \* --- Agent.act ---
  agent,            \* the Agent's fields and len(memory)
  calls,            \* history of the last act call
  \* --- DelayedMlpModule ---
  mlp,              \* the module's fields set by __init__
  x_in,             \* the observation tuple handed to MlpActionValue.forward
  out               \* what forward did

iterVars == <<run_cls, arg, fs, log, pc, checkpoint_path, run_instance, held, exc, hist>>
agentVars == <<agent, calls>>
mlpVars == <<mlp, x_in, out>>
vars == <<iterVars, agentVars, mlpVars>>

\* =========================================================================
\* Paths.  A path is a sequence of name parts; str.endswith looks at the
\* last part.  None and "" are both falsy in `checkpoint_path or mktemp(..)`.
\* =========================================================================
NoPath == <<>>
RemoveSuffix == "_remove_on_exit"
TmpStems == {"tmpa", "tmpb", "tmpc", "tmpd"}
RunFsState == <<"run", "/state">>
ExplicitPaths == {RunFsState, <<"ckpt", "_remove_on_exit">>}

\* tempfile.mktemp(suffix): a name that no file has, ending with the suffix
\* (faulty variant: the generated name carries another suffix)
mktempOtherSuffix(stem) == <<stem, ".tmp">>
mktemp(stem) == <<stem, RemoveSuffix>>

endswith(p, s) == Len(p) > 0 /\ p[Len(p)] = s

exists(p) == p \in DOMAIN fs

\* =========================================================================
\* Collaborators that live outside the excerpt (agents.util, agents.training)
\* =========================================================================
\* dump(obj, path): the file at path holds obj afterwards (atomic replace)
dump(files, obj, p) == [q \in (DOMAIN files) \cup {p} |-> IF q = p THEN obj ELSE files[q]]

\* load(path): the object stored at path
load(files, p) == files[p]

\* os.remove(path)
remove(files, p) == [q \in (DOMAIN files) \ {p} |-> files[q]]

\* run_cls(): a fresh Run State
NewRun(cls) == [epoch |-> 0, epochs |-> cls.epochs, rounds |-> cls.rounds, round |-> 0, acc |-> 0]

\* one round of environment interaction inside run_epoch: mutates the instance
RoundStep(inst) == [inst EXCEPT !.round = @ + 1, !.acc = @ + 1]

\* the end of run_epoch: the epoch counter advances by exactly one
EpochEnd(inst) == [inst EXCEPT !.epoch = @ + 1, !.round = 0]

\* the Statistics Record run_epoch returns
StatsOf(inst) == [epoch |-> inst.epoch, acc |-> inst.acc]

\* =========================================================================
\* iterate_episodes
\* =========================================================================
\* line 33: `if not exists(checkpoint_path)`
\* (faulty variant: an existing checkpoint is ignored and overwritten)
NeedsCreateAlways(p) == TRUE \/ exists(p)
NeedsCreate(p) == ~exists(p)

\* line 43: `while run_instance.epoch < run_instance.epochs`
LoopCond(inst) == inst.epoch < inst.epochs

\* line 55: `checkpoint_path.endswith("_remove_on_exit") and exists(checkpoint_path)`
ShouldRemove(p) == endswith(p, RemoveSuffix) /\ exists(p)

IterInit ==
  /\ run_cls \in [epochs : 1..MaxEpochs, rounds : {Rounds}]
  /\ arg \in {NoPath} \cup ExplicitPaths
  /\ fs = <<>>
  /\ log = <<>>
  /\ pc = "start"
  /\ checkpoint_path = NoPath
  /\ run_instance = <<>>
  /\ held = <<>>
  /\ exc = "none"
  /\ hist = [crashes |-> 0, exit |-> "none", opened |-> FALSE, yielded |-> 0, k0 |-> 0,
             clean |-> TRUE, completed |-> 0, lost_work |-> 0, resume_epoch |-> -1]

\* line 30: checkpoint_path = checkpoint_path or tempfile.mktemp("_remove_on_exit")
Enter ==
  /\ pc = "start"
  /\ \/ arg # NoPath /\ checkpoint_path' = arg
     \/ arg = NoPath /\ \E s \in TmpStems : ~exists(mktemp(s)) /\ checkpoint_path' = mktemp(s)
  /\ pc' = "open"
  /\ hist' = [hist EXCEPT !.yielded = 0, !.exit = "none", !.opened = FALSE]
  /\ UNCHANGED <<run_cls, arg, fs, log, run_instance, held, exc, agentVars, mlpVars>>

\* lines 33-40: create and persist a fresh run unless a checkpoint exists
Open ==
  /\ pc = "open"
  /\ IF NeedsCreate(checkpoint_path)
       THEN /\ fs' = dump(fs, NewRun(run_cls), checkpoint_path)
            /\ run_instance' = <<NewRun(run_cls)>>
            /\ hist' = [hist EXCEPT !.k0 = 0, !.opened = TRUE]
       ELSE /\ hist' = [hist EXCEPT !.k0 = load(fs, checkpoint_path).epoch, !.opened = TRUE]
            /\ UNCHANGED <<fs, run_instance>>
  /\ pc' = "load"
  /\ UNCHANGED <<run_cls, arg, log, checkpoint_path, held, exc, agentVars, mlpVars>>

\* lines 42 and 52: run_instance = load(checkpoint_path)
Load ==
  /\ pc = "load"
  /\ run_instance' = <<load(fs, checkpoint_path)>>
  /\ pc' = "loop"
  /\ hist' = [hist EXCEPT !.completed = load(fs, checkpoint_path).epoch,
                          !.resume_epoch = IF @ = -1 THEN load(fs, checkpoint_path).epoch ELSE @]
  /\ UNCHANGED <<run_cls, arg, fs, log, checkpoint_path, held, exc, agentVars, mlpVars>>

\* line 43, condition true: enter run_epoch
EpochBegin ==
  /\ pc = "loop"
  /\ LoopCond(run_instance[1])
  /\ pc' = "epoch"
  /\ UNCHANGED <<run_cls, arg, fs, log, checkpoint_path, run_instance, held, exc, hist, agentVars, mlpVars>>

\* line 43, condition false: leave the loop, the try block ends normally
LoopExit ==
  /\ pc = "loop"
  /\ ~LoopCond(run_instance[1])
  /\ pc' = "finally"
  /\ UNCHANGED <<run_cls, arg, fs, log, checkpoint_path, run_instance, held, exc, hist, agentVars, mlpVars>>

\* line 45: run_instance.run_epoch(), one round at a time; after the last round
\* the generator yields the record and is suspended
RunRound ==
  /\ pc = "epoch"
  /\ LET worked == RoundStep(run_instance[1]) IN
       IF worked.round < worked.rounds
         THEN /\ run_instance' = <<worked>>
              /\ UNCHANGED <<pc, held, hist>>
         ELSE /\ run_instance' = <<EpochEnd(worked)>>
              /\ held' = <<StatsOf(EpochEnd(worked))>>
              /\ pc' = "yielded"
              /\ hist' = [hist EXCEPT !.yielded = @ + 1, !.completed = EpochEnd(worked).epoch]
  /\ UNCHANGED <<run_cls, arg, fs, log, checkpoint_path, exc, agentVars, mlpVars>>

\* the caller's loop body (run_fs lines 92-94): append the record to the
\* statistics log, then ask the generator for the next one
Consume ==
  /\ pc = "yielded"
  /\ log' = Append(log, held[1])
  /\ held' = <<>>
  /\ pc' = "resume"
  /\ UNCHANGED <<run_cls, arg, fs, checkpoint_path, run_instance, exc, hist, agentVars, mlpVars>>

\* lines 46-51: after the yield, dump the instance and drop it
Resume ==
  /\ pc = "resume"
  /\ fs' = dump(fs, run_instance[1], checkpoint_path)
  /\ run_instance' = <<>>
  /\ pc' = "load"
  /\ UNCHANGED <<run_cls, arg, log, checkpoint_path, held, exc, hist, agentVars, mlpVars>>

\* an exception inside the try block: constructing the run, loading, running an
\* epoch, dumping
Raise ==
  /\ pc \in {"open", "load", "epoch", "resume"}
  /\ exc' = "exception"
  /\ pc' = "finally"
  /\ UNCHANGED <<run_cls, arg, fs, log, checkpoint_path, run_instance, held, hist, agentVars, mlpVars>>

\* the caller closes the suspended generator: GeneratorExit is raised at the yield
Close ==
  /\ pc = "yielded"
  /\ exc' = "closed"
  /\ held' = <<>>
  /\ pc' = "finally"
  /\ UNCHANGED <<run_cls, arg, fs, log, checkpoint_path, run_instance, hist, agentVars, mlpVars>>

\* lines 54-56: the finally clause
\* (faulty variant: on an exception the instance in memory is dumped)
FinallySavingProgress ==
  /\ pc = "finally"
  /\ fs' = IF ShouldRemove(checkpoint_path) THEN remove(fs, checkpoint_path)
           ELSE IF exc = "exception" /\ run_instance # <<>>
                  THEN dump(fs, run_instance[1], checkpoint_path)
                  ELSE fs
  /\ pc' = "exited"
  /\ hist' = [hist EXCEPT !.exit = IF exc = "none" THEN "completed" ELSE exc]
  /\ UNCHANGED <<run_cls, arg, log, checkpoint_path, run_instance, held, exc, agentVars, mlpVars>>

Finally ==
  /\ pc = "finally"
  /\ fs' = IF ShouldRemove(checkpoint_path) THEN remove(fs, checkpoint_path) ELSE fs
  /\ pc' = "exited"
  /\ hist' = [hist EXCEPT !.exit = IF exc = "none" THEN "completed" ELSE exc]
  /\ UNCHANGED <<run_cls, arg, log, checkpoint_path, run_instance, held, exc, agentVars, mlpVars>>

\* the process is killed: memory is lost, files stay, no finally clause runs
Crash ==
  /\ pc \in {"start", "open", "load", "loop", "epoch", "yielded", "resume", "finally"}
  /\ hist.crashes < MaxCrashes
  /\ pc' = "dead"
  /\ run_instance' = <<>>
  /\ held' = <<>>
  /\ checkpoint_path' = NoPath
  /\ exc' = "none"
  /\ hist' = [hist EXCEPT !.crashes = @ + 1,
                          !.clean = @ /\ pc = "load",
                          !.lost_work = hist.completed,
                          !.resume_epoch = -1]
  /\ UNCHANGED <<run_cls, arg, fs, log, agentVars, mlpVars>>

\* a new process calls iterate_episodes again with the same argument
Restart ==
  /\ pc = "dead"
  /\ pc' = "start"
  /\ hist' = [hist EXCEPT !.completed = 0, !.resume_epoch = -1]
  /\ UNCHANGED <<run_cls, arg, fs, log, checkpoint_path, run_instance, held, exc, agentVars, mlpVars>>

IterNext ==
  \/ Enter \/ Open \/ Load \/ EpochBegin \/ LoopExit \/ RunRound \/ Consume
  \/ Resume \/ Raise \/ Close \/ Finally \/ Crash \/ Restart

\* =========================================================================
\* Properties of the checkpoint loop (checked under Spec)
\* =========================================================================
RECURSIVE DoRounds(_, _)
DoRounds(inst, n) == IF n = 0 THEN inst ELSE DoRounds(RoundStep(inst), n - 1)

\* run_epoch as one call
run_epoch(inst) == EpochEnd(DoRounds(inst, inst.rounds))

\* the records of a loop that is never interrupted, from a given Run State
RECURSIVE UninterruptedStats(_)
UninterruptedStats(inst) ==
  IF LoopCond(inst) THEN <<StatsOf(run_epoch(inst))>> \o UninterruptedStats(run_epoch(inst))
  ELSE <<>>

\* ... and the Run State it ends with
RECURSIVE UninterruptedFinal(_)
UninterruptedFinal(inst) ==
  IF LoopCond(inst) THEN UninterruptedFinal(run_epoch(inst)) ELSE inst

StoredEpoch == IF exists(arg) THEN load(fs, arg).epoch ELSE 0

\* C1 (as claimed): whenever the caller holds the record of an epoch, the
\* checkpoint file already contains the Run State that epoch produced.
C1_HeldRecordIsCheckpointed ==
  held # <<>> =>
    /\ exists(checkpoint_path)
    /\ load(fs, checkpoint_path).epoch = held[1].epoch
    /\ load(fs, checkpoint_path).acc = held[1].acc

\* C4 (as claimed): once the generator has exited, a checkpoint file at a path
\* the caller supplied explicitly, whatever its name, still exists.
C4_ExplicitPathPreserved ==
  (pc = "exited" /\ arg # NoPath /\ hist.opened) => exists(arg)

\* C5: once the generator has exited (completion, exception, early close), the
\* auto-generated checkpoint file of a call without a path is absent.
C5_EphemeralCheckpointRemoved ==
  (pc = "exited" /\ arg = NoPath) => ~exists(checkpoint_path)

C5_Witness ==
  /\ pc = "exited" /\ arg = NoPath
  /\ hist.exit = "exception" /\ hist.opened /\ hist.yielded >= 1
  /\ run_instance # <<>> /\ run_instance[1].round > 0

\* C6 (as claimed): a fully consumed generator yields exactly epochs - k records,
\* k being the epoch of the checkpoint found at the start, and with an explicit
\* path the file exists at the end and holds epoch = epochs.
C6_YieldCountAndFinalCheckpoint ==
  (pc = "exited" /\ hist.exit = "completed") =>
    /\ hist.yielded = run_cls.epochs - hist.k0
    /\ arg # NoPath => (exists(arg) /\ load(fs, arg).epoch = run_cls.epochs)

\* C7: a run that was only ever stopped right after a checkpoint write and then
\* restarted on the same path has, at completion, logged the same records and
\* reached the same final Run State as the uninterrupted run.
C7_ResumeEqualsUninterrupted ==
  (pc = "exited" /\ hist.exit = "completed" /\ hist.clean
     /\ (arg # NoPath \/ hist.crashes = 0)) =>
    /\ log = UninterruptedStats(NewRun(run_cls))
    /\ run_instance = <<UninterruptedFinal(NewRun(run_cls))>>

C7_Witness ==
  /\ pc = "exited" /\ hist.exit = "completed" /\ hist.clean
  /\ arg # NoPath /\ hist.crashes >= 1
  /\ hist.k0 >= 1 /\ hist.k0 < run_cls.epochs
  /\ Len(log) = run_cls.epochs

C9_StatsLoggedOnce ==
  arg = RunFsState =>
    /\ \A i, j \in 1..Len(log) : i # j => log[i].epoch # log[j].epoch
    /\ Len(log) <= StoredEpoch + 1

\* =========================================================================
\* Agent.act (agents/rrtac.py): the training cadence
\* =========================================================================
\* training_steps as a fraction <<numerator, denominator>>; the values are
\* dyadic, so the float product of line 43 is exact
TrainingSteps == {<<1, 4>>, <<1, 2>>, <<1, 1>>, <<3, 2>>, <<2, 1>>}

\* Python's int(x) on a float n/d (d > 0): truncation toward zero
int(n, d) == IF n >= 0 THEN n \div d ELSE -((-n) \div d)

\* math.floor of n/d (d > 0)
floor(n, d) == n \div d

\* len(self.memory) after memory.append: a ring buffer of memory_size slots
LenAfterAppend(a) == IF a.len < a.memory_size THEN a.len + 1 ELSE a.len

\* line 43: total_updates_target, as the numerator over ts_den
TargetNum(a, len) == (len - a.start_training) * a.ts_num

\* line 44: the indices of range(self.total_updates, int(total_updates_target) + 1)
UpdateRange(a, len) == a.total_updates .. int(TargetNum(a, len), a.ts_den)

AgentInit ==
  /\ agent \in [start_training : 0..MaxStart, ts_num : {1, 2, 3}, ts_den : {1, 2, 4},
                memory_size : {MemorySize}, len : {0}, total_updates : {0}]
  /\ <<agent.ts_num, agent.ts_den>> \in TrainingSteps
  /\ calls = [acted |-> FALSE, n |-> 0, prev |-> 0, target_floor |-> 0,
              performed |-> {}, twice |-> FALSE, underrun |-> FALSE]

\* lines 37-46 with train=True: append, then one train() per index of the range;
\* the loop variable is self.total_updates, which keeps the last index
ActTrain ==
  /\ LET len == LenAfterAppend(agent)
         rng == UpdateRange(agent, len)
     IN /\ agent' = [agent EXCEPT !.len = len,
                                  !.total_updates = IF rng = {} THEN @
                                                    ELSE int(TargetNum(agent, len), agent.ts_den)]
        /\ calls' = [acted |-> TRUE,
                     n |-> Cardinality(rng),
                     prev |-> agent.total_updates,
                     target_floor |-> floor(TargetNum(agent, len), agent.ts_den),
                     performed |-> calls.performed \cup rng,
                     twice |-> calls.twice \/ (calls.performed \cap rng # {}),
                     underrun |-> calls.underrun \/ (rng # {} /\ len < agent.start_training)]
  /\ UNCHANGED <<iterVars, mlpVars>>

\* lines 37-46 with train=False: inference only, stats stay empty
ActNoTrain ==
  /\ calls' = [calls EXCEPT !.acted = FALSE, !.n = 0]
  /\ UNCHANGED <<agent, iterVars, mlpVars>>

AgentNext == ActTrain \/ ActNoTrain

\* C2 (as claimed): the number of train() calls of one act(train=True) equals
\* floor(accrued target) - previous total_updates, is never negative, and no
\* update index is performed twice.
C2_TrainCountMatchesAccrual ==
  calls.acted =>
    /\ calls.n = calls.target_floor - calls.prev
    /\ calls.n >= 0
    /\ ~calls.twice

\* C3 (as claimed): with start_training >= 1, train() is never invoked while
\* len(memory) < start_training.
C3_NoMemoryUnderrun ==
  agent.start_training >= 1 => ~calls.underrun

\* =========================================================================
\* DelayedMlpModule / MlpActionValue (rlrd/sac_models_rd.py)
\* =========================================================================
\* the observation tuples: the 4-element form of the docstring, and the
\* 5-element form of the comments (with beta); each element with the width it
\* contributes to a concatenation along dim=1
Observation(m, n) ==
  LET four == << [kind |-> "obs", width |-> m.obs_dim],
                 [kind |-> "act_buf", width |-> m.act_dim * m.buf_size],
                 [kind |-> "obs_delay", width |-> 1],
                 [kind |-> "act_delay", width |-> 1] >>
  IN IF n = 4 THEN four ELSE Append(four, [kind |-> "beta", width |-> 1])

Action(m) == [kind |-> "action", width |-> m.act_dim]

\* Python tuple indexing x[i], 0-based; <<>> stands for IndexError
Item(x, i) == IF i + 1 <= Len(x) THEN <<x[i + 1]>> ELSE <<>>

\* __init__ lines 51-68: in_features of self.lin
InFeatures(m) ==
  IF m.is_Q_network
    THEN IF m.tbmdp THEN m.obs_dim + m.act_dim
         ELSE IF m.act_delay /\ m.obs_delay
                THEN m.obs_dim + (m.act_dim + 2) * m.buf_size + m.act_dim
         ELSE IF m.act_delay \/ m.obs_delay
                THEN m.obs_dim + (m.act_dim + 1) * m.buf_size + m.act_dim
         ELSE m.obs_dim + m.act_dim * m.buf_size + m.act_dim
    ELSE IF m.tbmdp THEN m.obs_dim
         ELSE IF m.act_delay /\ m.obs_delay
                THEN m.obs_dim + (m.act_dim + 2) * m.buf_size
         ELSE IF m.act_delay \/ m.obs_delay
                THEN m.obs_dim + (m.act_dim + 1) * m.buf_size
         ELSE m.obs_dim + m.act_dim * m.buf_size

\* forward lines 84-113: the width of `input` before self.lin, and the element
\* read as the action
Forward(m, x) ==
  LET act == Item(x, 5)
      base == IF m.tbmdp THEN x[1].width
              ELSE x[1].width + x[2].width
                   + (IF m.obs_delay THEN m.buf_size ELSE 0)
                   + (IF m.act_delay THEN m.buf_size ELSE 0)
  IN IF m.is_Q_network /\ act = <<>>
       THEN [status |-> "IndexError", width |-> 0, act |-> "none", act_index |-> 5]
     ELSE LET w == IF m.is_Q_network THEN base + act[1].width ELSE base
          IN [status |-> IF w = m.in_features THEN "ok" ELSE "RuntimeError",
              width |-> w,
              act |-> IF m.is_Q_network THEN act[1].kind ELSE "none",
              act_index |-> 5]

MlpInit ==
  /\ mlp \in [status : {"new"}, is_Q_network : BOOLEAN, tbmdp : BOOLEAN,
              obs_delay : BOOLEAN, act_delay : BOOLEAN,
              obs_dim : 1..MaxDim, act_dim : 1..MaxDim, buf_size : 1..MaxBuf,
              in_features : {0}]
  /\ x_in \in {Observation(mlp, n) : n \in {4, 5}}
  /\ out = [status |-> "idle", width |-> 0, act |-> "none", act_index |-> 0]

\* DelayedMlpModule.__init__
Construct ==
  /\ mlp.status = "new"
  /\ mlp' = [mlp EXCEPT !.status = "built", !.in_features = InFeatures(mlp)]
  /\ UNCHANGED <<x_in, out, iterVars, agentVars>>

\* MlpActionValue.forward(obs, action): x = (*obs, action), then the module
ValueForward ==
  /\ mlp.status = "built" /\ mlp.is_Q_network
  /\ out.status = "idle"
  /\ out' = Forward(mlp, Append(x_in, Action(mlp)))
  /\ UNCHANGED <<mlp, x_in, iterVars, agentVars>>

\* MlpPolicy.forward(obs): the module on the observation itself
PolicyForward ==
  /\ mlp.status = "built" /\ ~mlp.is_Q_network
  /\ out.status = "idle"
  /\ out' = Forward(mlp, x_in)
  /\ UNCHANGED <<mlp, x_in, iterVars, agentVars>>

MlpNext == Construct \/ ValueForward \/ PolicyForward

\* C10 (as claimed): for a Q-network called through MlpActionValue.forward with
\* an observation of the documented 4-element form, forward reads the appended
\* action, and the width of the concatenated input equals in_features.
C10_ActionReadAndWidth ==
  (out.status # "idle" /\ mlp.is_Q_network /\ Len(x_in) = 4) =>
    /\ out.status = "ok"
    /\ out.act = "action"
    /\ out.width = mlp.in_features

\* =========================================================================
\* Specifications
\* =========================================================================
AgentIdle == agent = [len |-> 0, total_updates |-> 0] /\ calls = [acted |-> FALSE]
MlpIdle == mlp = [status |-> "none"] /\ x_in = <<>> /\ out = [status |-> "idle"]
IterIdle ==
  /\ run_cls = [epochs |-> 0, rounds |-> 0] /\ arg = NoPath /\ fs = <<>> /\ log = <<>>
  /\ pc = "none" /\ checkpoint_path = NoPath /\ run_instance = <<>> /\ held = <<>>
  /\ exc = "none" /\ hist = [crashes |-> 0]

Init == IterInit /\ AgentIdle /\ MlpIdle
Next == IterNext
Spec == Init /\ [][Next]_vars

InitAgent == AgentInit /\ IterIdle /\ MlpIdle
SpecAgent == InitAgent /\ [][AgentNext]_vars

InitMlp == MlpInit /\ IterIdle /\ AgentIdle
SpecMlp == InitMlp /\ [][MlpNext]_vars
====
